---- MODULE Spec2Model ----
(***************************************************************************)
(* Session state machine and order-assembly engine of street-eda           *)
(* (src/app.py): the per-user FSM context (state + data), the cart,        *)
(* catalog, settings, orders and order_items tables, and the handlers that *)
(* read and write them.  Money is counted in units of 100 rub.             *)
(*                                                                         *)
(* A handler that touches the store once is one action.  The commit        *)
(* handler process_final_confirmation awaits the store and the chat API    *)
(* several times; it is a task whose steps are the stretches between its   *)
(* awaits, so that other events can run in between.                        *)
(***************************************************************************)
EXTENDS Integers, Sequences, FiniteSets, TLC

VARIABLES state, data, cart, menu_items, categories, settings,
          orders, order_items, tasks

vars == <<state, data, cart, menu_items, categories, settings,
          orders, order_items, tasks>>

(***************************************************************************)
(* Bounds of the model.                                                    *)
(***************************************************************************)
MaxQty == 1        \* a cart line is not raised above this quantity
MaxOrders == 1     \* rows of the orders table when one user's events are serial
MaxConcOrders == 2 \* rows of the orders table when events run as concurrent tasks
MaxTasks == 2      \* handlers in flight between two of their store statements
MaxCartQty == 3    \* the quantity of a cart line when only the cart is looked at

(***************************************************************************)
(* Identities and inputs.                                                  *)
(***************************************************************************)
Users == {1, 2}
ADMIN_IDS == {1}
\* Who sends the events of the order flow and who those of the admin flows.
Customers == {2}
Operators == {1}
ItemIds == {1, 2}
CatIds == {1, 2}
TaskIds == 1..MaxTasks

NameInputs == {"Ann"}
PhoneInputs == {"79001234567", "12345"}
ContactInputs == {"79001234567"}
AddressInputs == {"Lenina 12", "home"}
CommentInputs == {"no onion", "no", "No"}
DeliveryInputs == {"takeaway", "delivery"}
PriceInputs == {"4", "abc"}
SettingInputs == {"6", "abc"}
CategoryInputs == {"Drinks", "Shawarma", " "}
ItemNameInputs == {"Cola"}
\* The category a new item is put in when the panel is looked at as a whole.
NewItemCats == {1}
\* The price and setting texts of the admin flows.
NumberInputs == {"4", "-4", "abc"}
RepriceItems == {1}
\* The inputs of the dialogue steps: phone texts around the limits of 10 and
\* 15 digits, and the values a 'delivery:' callback can carry.
PhoneTexts == {"123456789", "1234567890", "+7 (900) 123-45-67",
               "123456789012345", "1234567890123456", "call me"}
DeliveryValues == {"takeaway", "delivery", "pickup"}
\* The inputs of the concurrent order flow.
ConcItems == {1}
ConcDelivery == {"takeaway"}
SettingKeys == {"delivery_fee", "free_delivery_threshold"}
\* what is sent while the recorded orders are looked at
LedgerComments == {"no"}
LedgerKeys == {"delivery_fee"}
\* what each of two users sends when both order at once: an item, a name
\* and a phone of their own
PairItem(u) == IF u = 1 THEN 1 ELSE 2
PairName(u) == IF u = 1 THEN "Ann" ELSE "Bob"
PairPhone(u) == IF u = 1 THEN "79001234567" ELSE "79007654321"

\* The characters of each input text, in order.
Chars(t) ==
    CASE t = "Ann" -> <<"A", "n", "n">>
      [] t = "12345" -> <<"1", "2", "3", "4", "5">>
      [] t = "79001234567" -> <<"7", "9", "0", "0", "1", "2", "3", "4", "5", "6", "7">>
      [] t = "123456789" -> <<"1", "2", "3", "4", "5", "6", "7", "8", "9">>
      [] t = "1234567890" -> <<"1", "2", "3", "4", "5", "6", "7", "8", "9", "0">>
      [] t = "+7 (900) 123-45-67" ->
            <<"+", "7", " ", "(", "9", "0", "0", ")", " ", "1", "2", "3", "-",
              "4", "5", "-", "6", "7">>
      [] t = "123456789012345" ->
            <<"1", "2", "3", "4", "5", "6", "7", "8", "9", "0", "1", "2", "3",
              "4", "5">>
      [] t = "1234567890123456" ->
            <<"1", "2", "3", "4", "5", "6", "7", "8", "9", "0", "1", "2", "3",
              "4", "5", "6">>
      [] t = "call me" -> <<"c", "a", "l", "l", " ", "m", "e">>
      [] t = "Lenina 12" -> <<"L", "e", "n", "i", "n", "a", " ", "1", "2">>
      [] t = "home" -> <<"h", "o", "m", "e">>
      [] t = "no onion" -> <<"n", "o", " ", "o", "n", "i", "o", "n">>
      [] t = "no" -> <<"n", "o">>
      [] t = "No" -> <<"N", "o">>
      [] t = "4" -> <<"4">>
      [] t = "6" -> <<"6">>
      [] t = "-4" -> <<"-", "4">>
      [] t = "abc" -> <<"a", "b", "c">>
      [] OTHER -> << >>

Digits == {"0", "1", "2", "3", "4", "5", "6", "7", "8", "9"}

\* len(message.text)
TextLen(t) == Len(Chars(t))

\* len(re.sub(r'\D', '', message.text))
DigitCount(t) == Len(SelectSeq(Chars(t), LAMBDA c : c \in Digits))

\* message.text.lower().strip()
LowerStrip(t) == CASE t = "No" -> "no" [] OTHER -> t

\* message.text.strip()
Strip(t) == CASE t = " " -> "" [] OTHER -> t

\* message.text.lower().strip() not in ['нет', 'no', '-']
IsNoComment(t) == LowerStrip(t) \in {"no", "-"}

\* float(message.text): an optional sign and decimal digits parse, to the
\* number they write; a text that does not parse raises ValueError.
Unsigned(c) == IF c # << >> /\ Head(c) \in {"-", "+"} THEN Tail(c) ELSE c

ParsesAsNumber(t) ==
    /\ Unsigned(Chars(t)) # << >>
    /\ \A k \in 1..Len(Unsigned(Chars(t))) : Unsigned(Chars(t))[k] \in Digits

DigitValue(c) ==
    CASE c = "0" -> 0 [] c = "1" -> 1 [] c = "2" -> 2 [] c = "3" -> 3
      [] c = "4" -> 4 [] c = "5" -> 5 [] c = "6" -> 6 [] c = "7" -> 7
      [] c = "8" -> 8 [] c = "9" -> 9

RECURSIVE Decimal(_)
Decimal(c) ==
    IF c = << >> THEN 0
    ELSE 10 * Decimal(SubSeq(c, 1, Len(c) - 1)) + DigitValue(c[Len(c)])

NumberOf(t) ==
    IF Chars(t) # << >> /\ Head(Chars(t)) = "-"
    THEN 0 - Decimal(Unsigned(Chars(t)))
    ELSE Decimal(Unsigned(Chars(t)))

(***************************************************************************)
(* The FSM context.  data[u] is the dict of collected fields: a function   *)
(* whose domain is the set of keys present.                                *)
(***************************************************************************)
NoState == "None"
OrderStates == {"awaiting_name", "awaiting_phone", "awaiting_address",
                "awaiting_comment", "awaiting_final_confirmation"}
AdminStates == {"awaiting_new_category_name", "await_new_item_name",
                "await_new_item_price", "await_new_price",
                "await_new_setting_value"}

EmptyData == [k \in {} |-> 0]

UpdateData(d, k, v) ==
    [x \in (DOMAIN d) \cup {k} |-> IF x = k THEN v ELSE d[x]]

SetData(k, v) == [x \in {k} |-> v]

\* data.get(k, default)
Get(d, k, default) == IF k \in DOMAIN d THEN d[k] ELSE default

(***************************************************************************)
(* SELECT mi.id, mi.name, mi.price, c.quantity FROM cart c JOIN menu_items *)
(* mi ON c.item_id = mi.id WHERE c.user_id = u, as rows in item-id order.  *)
(***************************************************************************)
RECURSIVE JoinRows(_, _)
JoinRows(u, ids) ==
    IF ids = {} THEN << >>
    ELSE LET i == CHOOSE x \in ids : \A y \in ids : x <= y
             row == IF <<u, i>> \in DOMAIN cart /\ i \in DOMAIN menu_items
                    THEN << [id |-> i, name |-> menu_items[i].name,
                             price |-> menu_items[i].price,
                             quantity |-> cart[<<u, i>>]] >>
                    ELSE << >>
         IN row \o JoinRows(u, ids \ {i})

CartItems(u) == JoinRows(u, ItemIds)

\* sum(price * quantity for ... in cart_items)
RECURSIVE Subtotal(_)
Subtotal(rows) ==
    IF rows = << >> THEN 0
    ELSE Head(rows).price * Head(rows).quantity + Subtotal(Tail(rows))

\* The fee rule that still charges at the threshold itself.
DeliveryCostLe(delivery_type, subtotal, st) ==
    IF delivery_type = "delivery" /\ subtotal <= st.free_delivery_threshold
    THEN st.delivery_fee ELSE 0

\* confirm_order, lines 188-195
DeliveryCost(delivery_type, subtotal, st) ==
    IF delivery_type = "delivery"
    THEN IF subtotal < st.free_delivery_threshold THEN st.delivery_fee ELSE 0
    ELSE 0

EmptyCart == [k \in {} |-> 0]

\* The DELETE without its WHERE clause: the lines of every user.
CartWithoutAnyone(u) == EmptyCart

\* DELETE FROM cart WHERE user_id = u
CartWithoutUser(u) ==
    [k \in {x \in DOMAIN cart : x[1] # u} |-> cart[k]]

\* DELETE FROM cart WHERE user_id = u AND item_id = i
CartWithoutLine(u, i) ==
    [k \in (DOMAIN cart) \ {<<u, i>>} |-> cart[k]]

\* An upsert that writes the row anew with quantity 1.
CartUpsertLost(u, i) ==
    [k \in (DOMAIN cart) \cup {<<u, i>>} |-> IF k = <<u, i>> THEN 1 ELSE cart[k]]

\* INSERT OR REPLACE INTO cart ... COALESCE((SELECT quantity ...), 0) + 1
CartUpsert(u, i) ==
    [k \in (DOMAIN cart) \cup {<<u, i>>} |->
        IF k = <<u, i>>
        THEN (IF k \in DOMAIN cart THEN cart[k] ELSE 0) + 1
        ELSE cart[k]]

(***************************************************************************)
(* Tasks: a handler of several store statements, between its awaits (the   *)
(* commit handler and the two delete handlers of the admin panel).         *)
(***************************************************************************)
NoTask == [pc |-> "idle", user |-> 0, data |-> EmptyData,
           cart_items |-> << >>, order_id |-> 0, cat_id |-> 0, item_id |-> 0]

Active(t) == tasks[t].pc # "idle"
ActiveOf(u) == {t \in TaskIds : Active(t) /\ tasks[t].user = u}

\* Whether an event of user u may be taken up now.  serial: the events of
\* one user are handled one at a time.
MayHandle(u, serial) == serial => ActiveOf(u) = {}

Init ==
    /\ state = [u \in Users |-> NoState]
    /\ data = [u \in Users |-> EmptyData]
    /\ cart = EmptyCart
    /\ menu_items = [i \in ItemIds |->
           IF i = 1 THEN [name |-> "Mini", price |-> 2, category_id |-> 1]
                    ELSE [name |-> "Lulya", price |-> 3, category_id |-> 2]]
    /\ categories = [c \in CatIds |-> IF c = 1 THEN "Shawarma" ELSE "Kebab"]
    /\ settings = [delivery_fee |-> 4, free_delivery_threshold |-> 5]
    /\ orders = << >>
    /\ order_items = << >>
    /\ tasks = [t \in TaskIds |-> NoTask]

(***************************************************************************)
(* state.clear(): the state and the data of one user.                      *)
(***************************************************************************)
StateClear(u) ==
    /\ state' = [state EXCEPT ![u] = NoState]
    /\ data' = [data EXCEPT ![u] = EmptyData]

Store == <<cart, menu_items, categories, settings, orders, order_items>>

(***************************************************************************)
(* General message handlers.  They are registered before the FSM handlers  *)
(* and so match in every state.                                            *)
(***************************************************************************)
send_welcome(u, serial) ==
    /\ MayHandle(u, serial)
    /\ StateClear(u)
    /\ UNCHANGED <<Store, tasks>>

show_menu(u, serial) ==
    /\ MayHandle(u, serial)
    /\ StateClear(u)
    /\ UNCHANGED <<Store, tasks>>

(***************************************************************************)
(* Message handlers of the order flow.                                     *)
(***************************************************************************)
process_name(u, t, serial) ==
    /\ MayHandle(u, serial)
    /\ state[u] = "awaiting_name"
    /\ data' = [data EXCEPT ![u] = UpdateData(@, "name", t)]
    /\ state' = [state EXCEPT ![u] = "awaiting_phone"]
    /\ UNCHANGED <<Store, tasks>>

process_phone_contact(u, p, serial) ==
    /\ MayHandle(u, serial)
    /\ state[u] = "awaiting_phone"
    /\ data' = [data EXCEPT ![u] = UpdateData(@, "phone", p)]
    /\ UNCHANGED <<state, Store, tasks>>

\* The digit count with no upper limit.
PhoneOkNoUpper(t) == 10 <= DigitCount(t)

\* 10 <= len(re.sub(r'\D', '', message.text)) <= 15
PhoneOk(t) == 10 <= DigitCount(t) /\ DigitCount(t) <= 15

process_phone_text(u, t, serial) ==
    /\ MayHandle(u, serial)
    /\ state[u] = "awaiting_phone"
    /\ IF PhoneOk(t)
       THEN data' = [data EXCEPT ![u] = UpdateData(@, "phone", t)]
       ELSE UNCHANGED data
    /\ UNCHANGED <<state, Store, tasks>>

AddressOk(t) == TextLen(t) > 5

process_address(u, t, serial) ==
    /\ MayHandle(u, serial)
    /\ state[u] = "awaiting_address"
    /\ IF AddressOk(t)
       THEN /\ data' = [data EXCEPT ![u] = UpdateData(@, "address", t)]
            /\ state' = [state EXCEPT ![u] = "awaiting_comment"]
       ELSE UNCHANGED <<state, data>>
    /\ UNCHANGED <<Store, tasks>>

(***************************************************************************)
(* confirm_order(message, state), run on the dict d read at its line 181.  *)
(* A missing key raises KeyError at the line that reads it: whatever was   *)
(* written to the session before that line stays written.                  *)
(***************************************************************************)
FinalTotal(u, d) ==
    LET subtotal == Subtotal(CartItems(u))
    IN subtotal + DeliveryCost(d["delivery_type"], subtotal, settings)

confirm_order(u, d) ==
    IF "delivery_type" \notin DOMAIN d
    THEN \* KeyError at line 190
         /\ data' = [data EXCEPT ![u] = d]
         /\ UNCHANGED state
    ELSE IF {"name", "phone"} \subseteq DOMAIN d
    THEN /\ data' = [data EXCEPT ![u] = UpdateData(d, "final_total", FinalTotal(u, d))]
         /\ state' = [state EXCEPT ![u] = "awaiting_final_confirmation"]
    ELSE \* KeyError at line 200 or 201, after update_data(final_total=...)
         /\ data' = [data EXCEPT ![u] = UpdateData(d, "final_total", FinalTotal(u, d))]
         /\ UNCHANGED state

process_comment(u, t, serial) ==
    /\ MayHandle(u, serial)
    /\ state[u] = "awaiting_comment"
    /\ confirm_order(u, IF IsNoComment(t) THEN data[u]
                        ELSE UpdateData(data[u], "comment", t))
    /\ UNCHANGED <<Store, tasks>>

(***************************************************************************)
(* Callback handlers of the user.  None of them but the confirm handler    *)
(* has a state filter.                                                     *)
(***************************************************************************)
handle_item_selection(u, i, serial, cap) ==
    /\ MayHandle(u, serial)
    /\ (IF <<u, i>> \in DOMAIN cart THEN cart[<<u, i>>] ELSE 0) < cap
    /\ cart' = CartUpsert(u, i)
    /\ UNCHANGED <<state, data, menu_items, categories, settings, orders,
                   order_items, tasks>>

handle_remove_from_cart(u, i, serial) ==
    /\ MayHandle(u, serial)
    /\ cart' = CartWithoutLine(u, i)
    /\ UNCHANGED <<state, data, menu_items, categories, settings, orders,
                   order_items, tasks>>

handle_clear_cart(u, serial) ==
    /\ MayHandle(u, serial)
    /\ cart' = CartWithoutUser(u)
    /\ UNCHANGED <<state, data, menu_items, categories, settings, orders,
                   order_items, tasks>>

\* SELECT 1 FROM cart WHERE user_id = u
CartExists(u) == \E k \in DOMAIN cart : k[1] = u

handle_checkout(u, serial) ==
    /\ MayHandle(u, serial)
    /\ IF CartExists(u)
       THEN /\ state' = [state EXCEPT ![u] = "awaiting_name"]
            /\ UNCHANGED data
       ELSE UNCHANGED <<state, data>>
    /\ UNCHANGED <<Store, tasks>>

handle_delivery_choice(u, dt, serial) ==
    /\ MayHandle(u, serial)
    /\ data' = [data EXCEPT ![u] = UpdateData(@, "delivery_type", dt)]
    /\ state' = [state EXCEPT ![u] =
           IF dt = "delivery" THEN "awaiting_address" ELSE "awaiting_comment"]
    /\ UNCHANGED <<Store, tasks>>

\* A cancel that also empties the cart.
handle_cancel_order_clears_cart(u, serial) ==
    /\ MayHandle(u, serial)
    /\ StateClear(u)
    /\ cart' = CartWithoutUser(u)
    /\ UNCHANGED <<menu_items, categories, settings, orders, order_items, tasks>>

handle_cancel_order(u, serial) ==
    /\ MayHandle(u, serial)
    /\ StateClear(u)
    /\ UNCHANGED <<Store, tasks>>

(***************************************************************************)
(* The commit: handle_final_confirmation -> process_final_confirmation.    *)
(* The state filter and get_data run without an await in between; then     *)
(* the handler awaits the cart read, the order transaction, the messages   *)
(* to the admins, the replies to the user, the cart delete, and at last    *)
(* clears the session.                                                     *)
(***************************************************************************)
\* The confirm callback accepted in any step of a flow.
ConfirmFilterAny(u) == state[u] # NoState

\* F.data == 'confirm_order', OrderState.awaiting_final_confirmation
ConfirmFilter(u) == state[u] = "awaiting_final_confirmation"

handle_final_confirmation(u, serial) ==
    /\ MayHandle(u, serial)
    /\ ConfirmFilter(u)
    /\ \E t \in TaskIds :
          /\ ~Active(t)
          /\ \A t2 \in TaskIds : t2 < t => Active(t2)
          /\ tasks' = [tasks EXCEPT ![t] =
                 [pc |-> "read_cart", user |-> u, data |-> data[u],
                  cart_items |-> << >>, order_id |-> 0, cat_id |-> 0,
                  item_id |-> 0]]
    /\ UNCHANGED <<state, data, Store>>

\* Lines 221-237: the cart is read again; an empty cart ends the flow, and
\* the texts built next read delivery_type, name and phone of the dict.
\* The empty-cart test left out.
NoRowsNever(rows) == FALSE

\* if not cart_items
NoRows(rows) == rows = << >>

ReadCart(t) ==
    /\ tasks[t].pc = "read_cart"
    /\ LET u == tasks[t].user
           rows == CartItems(u)
       IN tasks' = [tasks EXCEPT ![t] =
              IF NoRows(rows)
              THEN [@ EXCEPT !.pc = "answer_empty"]
              ELSE IF {"delivery_type", "name", "phone"} \subseteq DOMAIN @.data
              THEN [@ EXCEPT !.pc = "insert", !.cart_items = rows]
              ELSE NoTask]
    /\ UNCHANGED <<state, data, Store>>

\* Lines 224-226
AnswerEmpty(t) ==
    /\ tasks[t].pc = "answer_empty"
    /\ StateClear(tasks[t].user)
    /\ tasks' = [tasks EXCEPT ![t] = NoTask]
    /\ UNCHANGED Store

\* The total computed anew from the rows read at commit.
CommitTotalRecomputed(d, rows) ==
    Subtotal(rows) + DeliveryCost(d["delivery_type"], Subtotal(rows), settings)

\* final_total = data.get('final_total', 0)
CommitTotal(d, rows) == Get(d, "final_total", 0)

OrderRow(u, d, rows) ==
    [user_id |-> u, user_name |-> d["name"], phone_number |-> d["phone"],
     delivery_type |-> d["delivery_type"], address |-> Get(d, "address", ""),
     comment |-> Get(d, "comment", ""), total_amount |-> CommitTotal(d, rows)]

OrderItemRows(order_id, rows) ==
    [k \in 1..Len(rows) |->
        [order_id |-> order_id, item_name |-> rows[k].name,
         quantity |-> rows[k].quantity, price_per_item |-> rows[k].price]]

\* Lines 238-246: one transaction inserts the order and its lines.
InsertOrder(t, cap) ==
    /\ tasks[t].pc = "insert"
    /\ Len(orders) < cap
    /\ LET u == tasks[t].user
           order_id == Len(orders) + 1
       IN /\ orders' = Append(orders, OrderRow(u, tasks[t].data, tasks[t].cart_items))
          /\ order_items' = order_items \o OrderItemRows(order_id, tasks[t].cart_items)
          /\ tasks' = [tasks EXCEPT ![t].pc = "notify", ![t].order_id = order_id]
    /\ UNCHANGED <<state, data, cart, menu_items, categories, settings>>

\* Lines 247-252: a failed send is caught and logged.
NotifyAdmins(t) ==
    /\ tasks[t].pc = "notify"
    /\ tasks' = [tasks EXCEPT ![t].pc = "reply"]
    /\ UNCHANGED <<state, data, Store>>

\* Lines 253-254
ReplyToUser(t) ==
    /\ tasks[t].pc = "reply"
    /\ tasks' = [tasks EXCEPT ![t].pc = "delete_cart"]
    /\ UNCHANGED <<state, data, Store>>

\* Line 255
DeleteCart(t) ==
    /\ tasks[t].pc = "delete_cart"
    /\ cart' = CartWithoutUser(tasks[t].user)
    /\ tasks' = [tasks EXCEPT ![t].pc = "clear"]
    /\ UNCHANGED <<state, data, menu_items, categories, settings, orders,
                   order_items>>

\* Line 256
ClearSession(t) ==
    /\ tasks[t].pc = "clear"
    /\ StateClear(tasks[t].user)
    /\ tasks' = [tasks EXCEPT ![t] = NoTask]
    /\ UNCHANGED Store

\* An await that raises (a store error, a chat API error outside the
\* try of lines 248-252) ends the handler where it stands.
Raise(t) ==
    /\ tasks[t].pc \in {"read_cart", "answer_empty", "insert", "reply", "delete_cart",
                       "delete_items", "delete_category", "delete_item",
                       "checkout_cart", "checkout_settings"}
    /\ tasks' = [tasks EXCEPT ![t] = NoTask]
    /\ UNCHANGED <<state, data, Store>>

(***************************************************************************)
(* Admin handlers.  The callbacks carry the filter                         *)
(* F.from_user.id.in_(ADMIN_IDS); the message handlers of AdminState       *)
(* carry the state filter alone.                                           *)
(***************************************************************************)
\* A panel open to every user.
IsAnyUser(u) == u \in Users

IsAdmin(u) == u \in ADMIN_IDS

\* Registered after the FSM message handlers: reached only in a state that
\* has no message handler of its own.
admin_panel_command(u, serial) ==
    /\ MayHandle(u, serial)
    /\ IsAdmin(u)
    /\ state[u] \in {NoState, "awaiting_final_confirmation"}
    /\ StateClear(u)
    /\ UNCHANGED <<Store, tasks>>

admin_back_to_main(u, serial) ==
    /\ MayHandle(u, serial)
    /\ IsAdmin(u)
    /\ StateClear(u)
    /\ UNCHANGED <<Store, tasks>>

admin_add_category(u, serial) ==
    /\ MayHandle(u, serial)
    /\ IsAdmin(u)
    /\ state' = [state EXCEPT ![u] = "awaiting_new_category_name"]
    /\ UNCHANGED <<data, Store, tasks>>

\* INTEGER PRIMARY KEY: the new row gets the largest id in use plus one.
NextId(ids) == IF ids = {} THEN 1
               ELSE (CHOOSE x \in ids : \A y \in ids : y <= x) + 1

process_new_category_name(u, t, serial) ==
    /\ MayHandle(u, serial)
    /\ state[u] = "awaiting_new_category_name"
    /\ IF \E c \in DOMAIN categories : categories[c] = Strip(t)
       THEN UNCHANGED <<state, data, categories>>
       ELSE /\ NextId(DOMAIN categories) \in CatIds
            /\ categories' = [c \in (DOMAIN categories) \cup {NextId(DOMAIN categories)} |->
                   IF c \in DOMAIN categories THEN categories[c] ELSE Strip(t)]
            /\ StateClear(u)
    /\ UNCHANGED <<cart, menu_items, settings, orders, order_items, tasks>>

(***************************************************************************)
(* admin_confirm_delete_category: three statements, each committed on its  *)
(* own connection.  The first runs when the callback is taken up; the      *)
(* other two are the steps of a task.                                      *)
(***************************************************************************)
\* SELECT id FROM menu_items WHERE category_id = c
ItemsOf(c) == {i \in DOMAIN menu_items : menu_items[i].category_id = c}

\* A cascade that leaves the cart lines alone.
CartWithItems(ids) == cart

\* DELETE FROM cart WHERE item_id IN ids
CartWithoutItems(ids) ==
    [k \in {x \in DOMAIN cart : x[2] \notin ids} |-> cart[k]]

\* DELETE FROM menu_items WHERE id IN ids
MenuWithout(ids) == [i \in (DOMAIN menu_items) \ ids |-> menu_items[i]]

FreeTask(t) == ~Active(t) /\ \A t2 \in TaskIds : t2 < t => Active(t2)

admin_confirm_delete_category(u, c, serial) ==
    /\ MayHandle(u, serial)
    /\ IsAdmin(u)
    /\ cart' = CartWithoutItems(ItemsOf(c))
    /\ \E t \in TaskIds :
          /\ FreeTask(t)
          /\ tasks' = [tasks EXCEPT ![t] =
                 [NoTask EXCEPT !.pc = "delete_items", !.user = u, !.cat_id = c]]
    /\ UNCHANGED <<state, data, menu_items, categories, settings, orders,
                   order_items>>

\* Line 553
DeleteItemsOfCategory(t) ==
    /\ tasks[t].pc = "delete_items"
    /\ menu_items' = MenuWithout(ItemsOf(tasks[t].cat_id))
    /\ tasks' = [tasks EXCEPT ![t].pc = "delete_category"]
    /\ UNCHANGED <<state, data, cart, categories, settings, orders, order_items>>

\* Line 554
DeleteCategoryRow(t) ==
    /\ tasks[t].pc = "delete_category"
    /\ categories' = [c \in (DOMAIN categories) \ {tasks[t].cat_id} |-> categories[c]]
    /\ tasks' = [tasks EXCEPT ![t] = NoTask]
    /\ UNCHANGED <<state, data, cart, menu_items, settings, orders, order_items>>

(***************************************************************************)
(* The item flows of the admin panel.                                      *)
(***************************************************************************)
admin_add_item(u, c, serial) ==
    /\ MayHandle(u, serial)
    /\ IsAdmin(u)
    /\ data' = [data EXCEPT ![u] = SetData("category_id", c)]
    /\ state' = [state EXCEPT ![u] = "await_new_item_name"]
    /\ UNCHANGED <<Store, tasks>>

process_new_item_name(u, t, serial) ==
    /\ MayHandle(u, serial)
    /\ state[u] = "await_new_item_name"
    /\ data' = [data EXCEPT ![u] = UpdateData(@, "name", t)]
    /\ state' = [state EXCEPT ![u] = "await_new_item_price"]
    /\ UNCHANGED <<Store, tasks>>

\* INSERT INTO menu_items (name, price, category_id) VALUES (?, ?, ?)
process_new_item_price(u, t, serial) ==
    /\ MayHandle(u, serial)
    /\ state[u] = "await_new_item_price"
    /\ IF ParsesAsNumber(t) /\ {"name", "category_id"} \subseteq DOMAIN data[u]
       THEN /\ NextId(DOMAIN menu_items) \in ItemIds
            /\ menu_items' =
                  [i \in (DOMAIN menu_items) \cup {NextId(DOMAIN menu_items)} |->
                      IF i \in DOMAIN menu_items THEN menu_items[i]
                      ELSE [name |-> data[u]["name"], price |-> NumberOf(t),
                            category_id |-> data[u]["category_id"]]]
            /\ StateClear(u)
       ELSE UNCHANGED <<state, data, menu_items>>
    /\ UNCHANGED <<cart, categories, settings, orders, order_items, tasks>>

\* admin_confirm_delete_item: two statements; the first runs when the
\* callback is taken up, the second is the step of a task.
admin_confirm_delete_item(u, i, serial) ==
    /\ MayHandle(u, serial)
    /\ IsAdmin(u)
    /\ cart' = CartWithoutItems({i})
    /\ \E t \in TaskIds :
          /\ FreeTask(t)
          /\ tasks' = [tasks EXCEPT ![t] =
                 [NoTask EXCEPT !.pc = "delete_item", !.user = u, !.item_id = i]]
    /\ UNCHANGED <<state, data, menu_items, categories, settings, orders,
                   order_items>>

\* Line 587
DeleteItemRow(t) ==
    /\ tasks[t].pc = "delete_item"
    /\ menu_items' = MenuWithout({tasks[t].item_id})
    /\ tasks' = [tasks EXCEPT ![t] = NoTask]
    /\ UNCHANGED <<state, data, cart, categories, settings, orders, order_items>>

admin_edit_price(u, i, serial) ==
    /\ MayHandle(u, serial)
    /\ IsAdmin(u)
    /\ data' = [data EXCEPT ![u] = SetData("item_id", i)]
    /\ state' = [state EXCEPT ![u] = "await_new_price"]
    /\ UNCHANGED <<Store, tasks>>

\* The new price written to the recorded order lines of the item as well.
process_new_price_relines(u, t, serial) ==
    /\ MayHandle(u, serial)
    /\ state[u] = "await_new_price"
    /\ IF ParsesAsNumber(t) /\ "item_id" \in DOMAIN data[u]
       THEN /\ menu_items' = [i \in DOMAIN menu_items |->
                   IF i = data[u]["item_id"]
                   THEN [menu_items[i] EXCEPT !.price = NumberOf(t)]
                   ELSE menu_items[i]]
            /\ order_items' = [k \in 1..Len(order_items) |->
                   IF /\ data[u]["item_id"] \in DOMAIN menu_items
                      /\ order_items[k].item_name = menu_items[data[u]["item_id"]].name
                   THEN [order_items[k] EXCEPT !.price_per_item = NumberOf(t)]
                   ELSE order_items[k]]
            /\ StateClear(u)
       ELSE UNCHANGED <<state, data, menu_items, order_items>>
    /\ UNCHANGED <<cart, categories, settings, orders, tasks>>

\* UPDATE menu_items SET price = ? WHERE id = ?
process_new_price(u, t, serial) ==
    /\ MayHandle(u, serial)
    /\ state[u] = "await_new_price"
    /\ IF ParsesAsNumber(t) /\ "item_id" \in DOMAIN data[u]
       THEN /\ menu_items' = [i \in DOMAIN menu_items |->
                   IF i = data[u]["item_id"]
                   THEN [menu_items[i] EXCEPT !.price = NumberOf(t)]
                   ELSE menu_items[i]]
            /\ StateClear(u)
       ELSE UNCHANGED <<state, data, menu_items>>
    /\ UNCHANGED <<cart, categories, settings, orders, order_items, tasks>>

admin_edit_setting(u, k, serial) ==
    /\ MayHandle(u, serial)
    /\ IsAdmin(u)
    /\ data' = [data EXCEPT ![u] = SetData("key", k)]
    /\ state' = [state EXCEPT ![u] = "await_new_setting_value"]
    /\ UNCHANGED <<Store, tasks>>

\* UPDATE settings SET value = ? WHERE key = ?
process_new_setting_value(u, t, serial) ==
    /\ MayHandle(u, serial)
    /\ state[u] = "await_new_setting_value"
    /\ IF ParsesAsNumber(t) /\ "key" \in DOMAIN data[u]
       THEN /\ settings' = [k \in DOMAIN settings |->
                   IF k = data[u]["key"] THEN NumberOf(t) ELSE settings[k]]
            /\ StateClear(u)
       ELSE UNCHANGED <<state, data, settings>>
    /\ UNCHANGED <<cart, menu_items, categories, orders, order_items, tasks>>

(***************************************************************************)
(* process_comment between its awaits, for when its run is not the only    *)
(* one of its user: the handler stores the comment and reads the dict      *)
(* (lines 386-387, 181) before it awaits the cart read (183) and the       *)
(* settings read (186); update_data (197) then writes to the data the      *)
(* session holds by then, while the keys are read from the dict of line    *)
(* 181, and set_state follows (211).                                       *)
(***************************************************************************)
process_comment_begin(u, t) ==
    /\ state[u] = "awaiting_comment"
    /\ \E k \in TaskIds :
          /\ FreeTask(k)
          /\ LET d == IF IsNoComment(t) THEN data[u]
                      ELSE UpdateData(data[u], "comment", t)
             IN /\ data' = [data EXCEPT ![u] = d]
                /\ tasks' = [tasks EXCEPT ![k] =
                       [NoTask EXCEPT !.pc = "checkout_cart", !.user = u, !.data = d]]
    /\ UNCHANGED <<state, Store>>

\* Line 183
CheckoutReadCart(t) ==
    /\ tasks[t].pc = "checkout_cart"
    /\ tasks' = [tasks EXCEPT ![t].pc = "checkout_settings",
                              ![t].cart_items = CartItems(tasks[t].user)]
    /\ UNCHANGED <<state, data, Store>>

\* Lines 186-211
CheckoutFinish(t) ==
    /\ tasks[t].pc = "checkout_settings"
    /\ LET u == tasks[t].user
           d == tasks[t].data
           subtotal == Subtotal(tasks[t].cart_items)
       IN IF "delivery_type" \notin DOMAIN d
          THEN \* KeyError at line 190
               UNCHANGED <<state, data>>
          ELSE /\ data' = [data EXCEPT ![u] = UpdateData(@, "final_total",
                      subtotal + DeliveryCost(d["delivery_type"], subtotal, settings))]
               /\ IF {"name", "phone"} \subseteq DOMAIN d
                  THEN state' = [state EXCEPT ![u] = "awaiting_final_confirmation"]
                  ELSE \* KeyError at line 200 or 201
                       UNCHANGED state
    /\ tasks' = [tasks EXCEPT ![t] = NoTask]
    /\ UNCHANGED Store

(***************************************************************************)
(* The events of the chat transport and the steps of the tasks.            *)
(***************************************************************************)
UserEvent(U, serial) ==
    \E u \in U :
        \/ send_welcome(u, serial)
        \/ show_menu(u, serial)
        \/ \E t \in NameInputs : process_name(u, t, serial)
        \/ \E p \in ContactInputs : process_phone_contact(u, p, serial)
        \/ \E t \in PhoneInputs : process_phone_text(u, t, serial)
        \/ \E t \in AddressInputs : process_address(u, t, serial)
        \/ \E t \in CommentInputs : process_comment(u, t, serial)
        \/ \E i \in ItemIds : handle_item_selection(u, i, serial, MaxQty)
        \/ \E i \in ItemIds : handle_remove_from_cart(u, i, serial)
        \/ handle_clear_cart(u, serial)
        \/ handle_checkout(u, serial)
        \/ \E dt \in DeliveryInputs : handle_delivery_choice(u, dt, serial)
        \/ handle_cancel_order(u, serial)
        \/ handle_final_confirmation(u, serial)

RepriceEvent(U, serial) ==
    \E u \in U :
        \/ \E i \in RepriceItems : admin_edit_price(u, i, serial)
        \/ \E t \in PriceInputs : process_new_price(u, t, serial)

TaskStep(cap) ==
    \E t \in TaskIds :
        \/ ReadCart(t)
        \/ AnswerEmpty(t)
        \/ InsertOrder(t, cap)
        \/ NotifyAdmins(t)
        \/ ReplyToUser(t)
        \/ DeleteCart(t)
        \/ ClearSession(t)
        \/ Raise(t)

\* The order flow, the events of one user handled one at a time.
Next == UserEvent(Customers, TRUE) \/ TaskStep(MaxOrders)

Spec == Init /\ [][Next]_vars

\* The order flow while an operator reprices an item.
NextShop ==
    \/ UserEvent(Customers, TRUE)
    \/ RepriceEvent(Operators, TRUE)
    \/ TaskStep(MaxOrders)

SpecShop == Init /\ [][NextShop]_vars

\* The order flow with every event dispatched as a task of its own: the
\* events that lead to a commit, and the commit tasks.
ConcEvent(U) ==
    \E u \in U :
        \/ \E i \in ConcItems : handle_item_selection(u, i, FALSE, MaxQty)
        \/ handle_checkout(u, FALSE)
        \/ \E t \in NameInputs : process_name(u, t, FALSE)
        \/ \E p \in ContactInputs : process_phone_contact(u, p, FALSE)
        \/ \E dt \in ConcDelivery : handle_delivery_choice(u, dt, FALSE)
        \/ \E t \in CommentInputs : process_comment(u, t, FALSE)
        \/ handle_final_confirmation(u, FALSE)

NextConc == ConcEvent(Customers) \/ TaskStep(MaxConcOrders)

SpecConc == Init /\ [][NextConc]_vars

\* The dialogue steps of the order flow up to the final confirmation, over
\* the wider phone texts and callback values.
DialogEvent(U) ==
    \E u \in U :
        \/ send_welcome(u, TRUE)
        \/ \E i \in ItemIds : handle_item_selection(u, i, TRUE, MaxQty)
        \/ handle_checkout(u, TRUE)
        \/ \E t \in NameInputs : process_name(u, t, TRUE)
        \/ \E p \in ContactInputs : process_phone_contact(u, p, TRUE)
        \/ \E t \in PhoneTexts : process_phone_text(u, t, TRUE)
        \/ \E dt \in DeliveryValues : handle_delivery_choice(u, dt, TRUE)
        \/ \E t \in AddressInputs : process_address(u, t, TRUE)
        \/ \E t \in CommentInputs : process_comment(u, t, TRUE)
        \/ handle_cancel_order(u, TRUE)

NextDialog == DialogEvent(Customers)

SpecDialog == Init /\ [][NextDialog]_vars

(***************************************************************************)
(* The admin panel.  Every user sends the admin events, an administrator   *)
(* or not; the customers fill their carts and begin a checkout.            *)
(***************************************************************************)
AdminEvent(U, serial) ==
    \E u \in U :
        \/ admin_panel_command(u, serial)
        \/ admin_back_to_main(u, serial)
        \/ admin_add_category(u, serial)
        \/ \E t \in CategoryInputs : process_new_category_name(u, t, serial)
        \/ \E c \in CatIds : admin_confirm_delete_category(u, c, serial)
        \/ \E c \in NewItemCats : admin_add_item(u, c, serial)
        \/ \E t \in ItemNameInputs : process_new_item_name(u, t, serial)
        \/ \E t \in NumberInputs : process_new_item_price(u, t, serial)
        \/ \E i \in RepriceItems : admin_edit_price(u, i, serial)
        \/ \E t \in NumberInputs : process_new_price(u, t, serial)
        \/ \E i \in ItemIds : admin_confirm_delete_item(u, i, serial)
        \/ \E k \in SettingKeys : admin_edit_setting(u, k, serial)
        \/ \E t \in NumberInputs : process_new_setting_value(u, t, serial)

ShopperEvent(U, serial) ==
    \E u \in U :
        \/ \E i \in ItemIds : handle_item_selection(u, i, serial, MaxQty)
        \/ handle_checkout(u, serial)
        \/ send_welcome(u, serial)

DeleteStep ==
    \E t \in TaskIds :
        \/ DeleteItemsOfCategory(t)
        \/ DeleteCategoryRow(t)
        \/ DeleteItemRow(t)
        \/ Raise(t)

\* The admin panel, the events of one user handled one at a time.
NextAdmin ==
    \/ AdminEvent(Users, TRUE)
    \/ ShopperEvent(Customers, TRUE)
    \/ DeleteStep

SpecAdmin == Init /\ [][NextAdmin]_vars

\* The catalog flows with every event dispatched as a task of its own: a
\* customer's add-item runs between the statements of a delete.
CascadeEvent(U) ==
    \E u \in U :
        \/ \E c \in CatIds : admin_confirm_delete_category(u, c, FALSE)
        \/ \E i \in ItemIds : admin_confirm_delete_item(u, i, FALSE)
        \/ \E c \in CatIds : admin_add_item(u, c, FALSE)
        \/ \E t \in ItemNameInputs : process_new_item_name(u, t, FALSE)
        \/ \E t \in NumberInputs : process_new_item_price(u, t, FALSE)

NextCascade ==
    \/ CascadeEvent(Operators)
    \/ \E u \in Customers : \E i \in ItemIds : handle_item_selection(u, i, FALSE, MaxQty)
    \/ DeleteStep

SpecCascade == Init /\ [][NextCascade]_vars

\* The cart mutations of every user, each call a task of its own, beside
\* the events that move the session.
CartEvent(U) ==
    \E u \in U :
        \/ \E i \in ItemIds : handle_item_selection(u, i, FALSE, MaxCartQty)
        \/ \E i \in ItemIds : handle_remove_from_cart(u, i, FALSE)
        \/ handle_clear_cart(u, FALSE)
        \/ handle_checkout(u, FALSE)
        \/ send_welcome(u, FALSE)

NextCart == CartEvent(Users)

\* The carts the calls find: any lines of any users, filled by earlier calls.
CartStarts ==
    UNION {[L -> 1..(MaxCartQty - 1)] : L \in SUBSET (Users \X ItemIds)}

InitCart ==
    /\ state = [u \in Users |-> NoState]
    /\ data = [u \in Users |-> EmptyData]
    /\ cart \in CartStarts
    /\ menu_items = [i \in ItemIds |->
           IF i = 1 THEN [name |-> "Mini", price |-> 2, category_id |-> 1]
                    ELSE [name |-> "Lulya", price |-> 3, category_id |-> 2]]
    /\ categories = [c \in CatIds |-> IF c = 1 THEN "Shawarma" ELSE "Kebab"]
    /\ settings = [delivery_fee |-> 4, free_delivery_threshold |-> 5]
    /\ orders = << >>
    /\ order_items = << >>
    /\ tasks = [t \in TaskIds |-> NoTask]

SpecCart == InitCart /\ [][NextCart]_vars

\* The dialogue with every event dispatched as a task of its own: a run of
\* process_comment, suspended at a store read, beside the next events of
\* its user.
OverlapEvent(U) ==
    \E u \in U :
        \/ send_welcome(u, FALSE)
        \/ \E i \in ConcItems : handle_item_selection(u, i, FALSE, MaxQty)
        \/ handle_checkout(u, FALSE)
        \/ \E t \in NameInputs : process_name(u, t, FALSE)
        \/ \E p \in ContactInputs : process_phone_contact(u, p, FALSE)
        \/ \E dt \in ConcDelivery : handle_delivery_choice(u, dt, FALSE)
        \/ \E t \in CommentInputs : process_comment_begin(u, t)

CheckoutStep ==
    \E t \in TaskIds :
        \/ CheckoutReadCart(t)
        \/ CheckoutFinish(t)
        \/ Raise(t)

NextOverlap == OverlapEvent(Customers) \/ CheckoutStep

SpecOverlap == Init /\ [][NextOverlap]_vars

\* Two users order at once: the events of each are handled one at a time,
\* the events and the commit steps of the two interleave.
PairEvent(U) ==
    \E u \in U :
        \/ handle_item_selection(u, PairItem(u), TRUE, MaxQty)
        \/ handle_remove_from_cart(u, PairItem(u), TRUE)
        \/ handle_clear_cart(u, TRUE)
        \/ handle_checkout(u, TRUE)
        \/ process_name(u, PairName(u), TRUE)
        \/ process_phone_contact(u, PairPhone(u), TRUE)
        \/ \E dt \in ConcDelivery : handle_delivery_choice(u, dt, TRUE)
        \/ \E t \in LedgerComments : process_comment(u, t, TRUE)
        \/ handle_cancel_order(u, TRUE)
        \/ handle_final_confirmation(u, TRUE)

NextPair == PairEvent(Users) \/ TaskStep(MaxConcOrders)

SpecPair == Init /\ [][NextPair]_vars

(***************************************************************************)
(* One order flow from its begin to its end: a user fills the cart while   *)
(* no flow is open, begins the checkout, and answers each question of the  *)
(* flow with a valid value.  No store statement fails; a send to the chat  *)
(* can.  The event loop resumes every handler whose await has completed,   *)
(* and the user goes on answering: both are weakly fair.                   *)
(***************************************************************************)
LiveAddress == "Lenina 12"

FillCart(u) ==
    /\ state[u] = NoState
    /\ \E i \in ItemIds : handle_item_selection(u, i, TRUE, MaxQty)

\* No flow is begun once the orders table is full.
BeginCheckout(u) ==
    /\ state[u] = NoState
    /\ CartExists(u)
    /\ Len(orders) < MaxConcOrders
    /\ handle_checkout(u, TRUE)

ChooseMode(u) ==
    /\ state[u] = "awaiting_phone"
    /\ "phone" \in DOMAIN data[u]
    /\ \E dt \in DeliveryInputs : handle_delivery_choice(u, dt, TRUE)

Answer(u) ==
    \/ \E t \in NameInputs : process_name(u, t, TRUE)
    \/ \E p \in ContactInputs : process_phone_contact(u, p, TRUE)
    \/ ChooseMode(u)
    \/ process_address(u, LiveAddress, TRUE)
    \/ \E t \in CommentInputs : process_comment(u, t, TRUE)
    \/ handle_final_confirmation(u, TRUE)

Resume ==
    \E t \in TaskIds :
        \/ ReadCart(t)
        \/ InsertOrder(t, MaxConcOrders)
        \/ NotifyAdmins(t)
        \/ ReplyToUser(t)
        \/ DeleteCart(t)
        \/ ClearSession(t)

\* Lines 253-254: edit_text or answer raises (for every Order but the last
\* the table has room for).
SendFails ==
    \E t \in TaskIds :
        /\ tasks[t].pc = "reply"
        /\ tasks[t].order_id < MaxConcOrders
        /\ Raise(t)

NextLive ==
    \/ \E u \in Customers : FillCart(u) \/ BeginCheckout(u) \/ Answer(u)
    \/ Resume
    \/ SendFails

SpecLive ==
    /\ Init
    /\ [][NextLive]_vars
    /\ \A u \in Customers : WF_vars(Answer(u))
    /\ WF_vars(Resume)

\* The recorded orders while a customer orders again and changes the cart,
\* and an operator reprices and deletes items and changes the settings.
OrderEvent(U, serial) ==
    \E u \in U :
        \/ \E i \in ConcItems : handle_item_selection(u, i, serial, MaxQty)
        \/ handle_clear_cart(u, serial)
        \/ handle_checkout(u, serial)
        \/ \E t \in NameInputs : process_name(u, t, serial)
        \/ \E p \in ContactInputs : process_phone_contact(u, p, serial)
        \/ \E dt \in ConcDelivery : handle_delivery_choice(u, dt, serial)
        \/ \E t \in LedgerComments : process_comment(u, t, serial)
        \/ handle_final_confirmation(u, serial)

LedgerEvent(U, serial) ==
    \E u \in U :
        \/ \E i \in RepriceItems : admin_edit_price(u, i, serial)
        \/ \E t \in PriceInputs : process_new_price(u, t, serial)
        \/ \E i \in ConcItems : admin_confirm_delete_item(u, i, serial)
        \/ \E c \in NewItemCats : admin_confirm_delete_category(u, c, serial)
        \/ \E k \in LedgerKeys : admin_edit_setting(u, k, serial)
        \/ \E t \in SettingInputs : process_new_setting_value(u, t, serial)

NextLedger ==
    \/ OrderEvent(Customers, TRUE)
    \/ LedgerEvent(Operators, TRUE)
    \/ TaskStep(MaxConcOrders)
    \/ DeleteStep

SpecLedger == Init /\ [][NextLedger]_vars

(***************************************************************************)
(* The checkout computation on its own: a session that awaits the comment, *)
(* over every cart, price list, settings and delivery mode of the sets     *)
(* below, and the comment that runs confirm_order.                         *)
(***************************************************************************)
CheckoutFees == {0, 4}
CheckoutThresholds == {0, 5, 7}
CheckoutPrices == {2, 4}

CheckoutCarts ==
    UNION {[L -> 1..MaxQty] : L \in SUBSET (Customers \X ItemIds)}

CheckoutSession(dt) ==
    IF dt = "delivery"
    THEN [name |-> "Ann", phone |-> "79001234567", delivery_type |-> dt,
          address |-> "Lenina 12"]
    ELSE [name |-> "Ann", phone |-> "79001234567", delivery_type |-> dt]

InitCheckout ==
    /\ state = [u \in Users |-> IF u \in Customers THEN "awaiting_comment" ELSE NoState]
    /\ \E dt \in DeliveryInputs :
          data = [u \in Users |-> IF u \in Customers THEN CheckoutSession(dt)
                                  ELSE EmptyData]
    /\ cart \in CheckoutCarts
    /\ \E p \in CheckoutPrices :
          menu_items = [i \in ItemIds |->
              IF i = 1 THEN [name |-> "Mini", price |-> p, category_id |-> 1]
                       ELSE [name |-> "Lulya", price |-> 3, category_id |-> 2]]
    /\ categories = [c \in CatIds |-> IF c = 1 THEN "Shawarma" ELSE "Kebab"]
    /\ \E f \in CheckoutFees, th \in CheckoutThresholds :
          settings = [delivery_fee |-> f, free_delivery_threshold |-> th]
    /\ orders = << >>
    /\ order_items = << >>
    /\ tasks = [t \in TaskIds |-> NoTask]

NextCheckout ==
    \E u \in Customers : \E t \in CommentInputs : process_comment(u, t, TRUE)

SpecCheckout == InitCheckout /\ [][NextCheckout]_vars

(***************************************************************************)
(* The checkout computation as the specification words it: the sum of      *)
(* unit price x quantity over the cart lines of the user, and the fee      *)
(* rule.                                                                   *)
(***************************************************************************)
AFC == "awaiting_final_confirmation"

RECURSIVE LineSum(_, _)
LineSum(u, ids) ==
    IF ids = {} THEN 0
    ELSE LET i == CHOOSE x \in ids : TRUE
         IN (IF <<u, i>> \in DOMAIN cart /\ i \in DOMAIN menu_items
             THEN menu_items[i].price * cart[<<u, i>>] ELSE 0)
            + LineSum(u, ids \ {i})

FeeRule(mode, subtotal) ==
    IF mode = "delivery" /\ subtotal < settings.free_delivery_threshold
    THEN settings.delivery_fee ELSE 0

\* The rows of order_items that belong to order k, and their sum.
LinesOf(k) == SelectSeq(order_items, LAMBDA r : r.order_id = k)

RECURSIVE RowSum(_)
RowSum(rows) ==
    IF rows = << >> THEN 0
    ELSE Head(rows).price_per_item * Head(rows).quantity + RowSum(Tail(rows))

NewOrder == Len(orders') = Len(orders) + 1

(***************************************************************************)
(* C1 Exactly-once commit.  With one user's events handled one at a time:  *)
(* the orders table changes only by one commit task appending one Order,   *)
(* a task that has not created its Order yet and holds a non-empty cart;   *)
(* a commit task is started only by a confirm in                           *)
(* AwaitingFinalConfirmation, so a confirm that arrives after the commit,  *)
(* in Idle, starts none and creates no Order; and a task that has come     *)
(* past the insert has created exactly its one Order.                      *)
(***************************************************************************)
C1_ExactlyOnceCommit ==
    [][ /\ orders' # orders =>
             /\ NewOrder
             /\ SubSeq(orders', 1, Len(orders)) = orders
             /\ \E t \in TaskIds :
                   /\ tasks[t].pc = "insert"
                   /\ tasks[t].order_id = 0
                   /\ tasks[t].cart_items # << >>
                   /\ tasks'[t].order_id = Len(orders')
                   /\ orders'[Len(orders')].user_id = tasks[t].user
        /\ \A t \in TaskIds :
             /\ (~Active(t) /\ tasks'[t].pc # "idle") =>
                   /\ state[tasks'[t].user] = AFC
                   /\ ActiveOf(tasks'[t].user) = {}
             /\ tasks'[t].pc \in {"notify", "reply", "delete_cart", "clear"} =>
                   /\ tasks'[t].order_id \in 1..Len(orders')
                   /\ orders'[tasks'[t].order_id].user_id = tasks'[t].user
             /\ (tasks[t].order_id # 0 /\ tasks'[t].pc # "idle") =>
                   tasks'[t].order_id = tasks[t].order_id
      ]_vars

\* The user is back in Idle after a commit, with a cart filled again: a
\* confirm arriving now is the confirm after the commit.
C1_Witness ==
    \E u \in Users :
        /\ \E k \in 1..Len(orders) : orders[k].user_id = u
        /\ state[u] = NoState
        /\ ActiveOf(u) = {}
        /\ CartExists(u)

(***************************************************************************)
(* C2 Commit atomicity.  Every step that creates an Order also writes all  *)
(* of its OrderLines and leaves that user's cart cleared.                  *)
(***************************************************************************)
C2_CommitAtomic ==
    [][ NewOrder =>
          LET k == Len(orders')
              u == orders'[k].user_id
          IN /\ \E j \in 1..Len(order_items') : order_items'[j].order_id = k
             /\ \A c \in DOMAIN cart' : c[1] # u
      ]_vars

(***************************************************************************)
(* C3 Two confirm events of one user (a double press), dispatched as       *)
(* concurrent tasks, are not handled in overlap, so that at most one Order *)
(* is created from the one cart: no two commits of one user have both      *)
(* created their Order before either has come to clear the cart.           *)
(***************************************************************************)
C3_NoOverlapOneOrder ==
    \A u \in Users :
        Cardinality({t \in ActiveOf(u) :
            tasks[t].pc \in {"notify", "reply", "delete_cart"}}) <= 1

(***************************************************************************)
(* C4 The total of a committed Order is the final total that the checkout  *)
(* computation cached when it put the session into                         *)
(* AwaitingFinalConfirmation: the session enters that step with the        *)
(* computed total and keeps its fields while it stays there, the confirm   *)
(* accepted there takes the cached number along, and the commit stores     *)
(* that number, whatever the cart and the prices have become.              *)
(***************************************************************************)
C4_CommittedTotalIsCached ==
    [][ /\ \A u \in Users :
             /\ (state[u] # AFC /\ state'[u] = AFC) =>
                   /\ "final_total" \in DOMAIN data'[u]
                   /\ data'[u]["final_total"] =
                         LineSum(u, ItemIds)
                         + FeeRule(data'[u]["delivery_type"], LineSum(u, ItemIds))
             /\ (state[u] = AFC /\ state'[u] = AFC) => data'[u] = data[u]
        /\ \A t \in TaskIds :
             /\ (~Active(t) /\ tasks'[t].pc # "idle") =>
                   /\ state[tasks'[t].user] = AFC
                   /\ tasks'[t].data = data[tasks'[t].user]
             /\ (Active(t) /\ tasks'[t].pc # "idle") =>
                   tasks'[t].data = tasks[t].data
             /\ (NewOrder /\ tasks[t].pc = "insert" /\ tasks'[t].pc = "notify") =>
                   orders'[Len(orders')].total_amount = tasks[t].data["final_total"]
        /\ NewOrder => \E t \in TaskIds :
                          tasks[t].pc = "insert" /\ tasks'[t].pc = "notify"
      ]_vars

\* An Order whose cached total is not what its own lines add up to: the
\* cart changed after the checkout computation.
C4_Witness ==
    \E k \in 1..Len(orders) :
        /\ orders[k].delivery_type = "takeaway"
        /\ orders[k].total_amount # RowSum(LinesOf(k))

(***************************************************************************)
(* C5 No stale pricing.  The total of every Order is the sum of price x    *)
(* quantity over its own OrderLines plus the fee that the fee rule gives   *)
(* for that sum and the Order's delivery mode.                             *)
(***************************************************************************)
C5_NoStalePricing ==
    \A k \in 1..Len(orders) :
        orders[k].total_amount =
            RowSum(LinesOf(k)) + FeeRule(orders[k].delivery_type, RowSum(LinesOf(k)))

C7_EmptyCartAborts ==
    [][ \A u \in Users :
          /\ (state[u] # AFC /\ state'[u] = AFC) => CartItems(u) # << >>
          /\ ( /\ \E t \in CommentInputs : process_comment(u, t, TRUE)
               /\ {"name", "phone", "delivery_type"} \subseteq DOMAIN data[u]
               /\ CartItems(u) = << >> ) =>
                 (state'[u] = NoState /\ DOMAIN data'[u] = {})
      ]_vars

C9_CancelFrame ==
    [][ \A u \in Users :
          /\ (state[u] = AFC /\ handle_cancel_order(u, TRUE)) =>
                state'[u] = NoState
          /\ (state[u] = AFC /\ state'[u] = NoState /\ tasks' = tasks) =>
                /\ DOMAIN data'[u] = {}
                /\ cart' = cart
                /\ menu_items' = menu_items
                /\ categories' = categories
                /\ settings' = settings
                /\ orders' = orders
                /\ order_items' = order_items
      ]_vars

\* The session awaits the final confirmation with a cart to lose.
C9_Witness ==
    \E u \in Users : state[u] = AFC /\ CartExists(u) /\ ActiveOf(u) = {}

(***************************************************************************)
(* C10 Starting a new flow replaces the session: right after a             *)
(* begin-checkout that starts the flow, and right after the start of an    *)
(* admin flow, the session holds no field of an earlier flow.              *)
(***************************************************************************)
C10_NewFlowReplacesSession ==
    [][ \A u \in Users :
          /\ (handle_checkout(u, TRUE) /\ CartExists(u)) => DOMAIN data'[u] = {}
          /\ admin_add_category(u, TRUE) => DOMAIN data'[u] = {}
      ]_vars

(***************************************************************************)
(* C11 The address goes with the delivery mode: every committed Order with *)
(* mode takeaway has an empty address, and every committed Order with mode *)
(* delivery has an address of more than 5 characters.  (An Order takes its *)
(* address and mode from the session, so a session that holds an address   *)
(* together with mode takeaway is where such an Order comes from.)         *)
(***************************************************************************)
C11_AddressMatchesMode ==
    \A k \in 1..Len(orders) :
        /\ orders[k].delivery_type = "takeaway" => orders[k].address = ""
        /\ orders[k].delivery_type = "delivery" => TextLen(orders[k].address) > 5

(***************************************************************************)
(* C12 The comment step.  In AwaitingComment, with name, phone and mode    *)
(* collected, every answer takes the session to                            *)
(* AwaitingFinalConfirmation; an answer that is a no-comment sentinel in   *)
(* any letter case leaves the session without a comment, so that the Order *)
(* committed from it has an empty one; any other answer is the comment of  *)
(* the session.                                                            *)
(***************************************************************************)
C12_CommentStep ==
    [][ \A u \in Users : \A t \in CommentInputs :
          ( /\ state[u] = "awaiting_comment"
            /\ {"name", "phone", "delivery_type"} \subseteq DOMAIN data[u]
            /\ process_comment(u, t, TRUE) ) =>
              /\ state'[u] = AFC
              /\ IF t \in {"no", "No"}
                 THEN "comment" \notin DOMAIN data'[u]
                 ELSE /\ "comment" \in DOMAIN data'[u]
                      /\ data'[u]["comment"] = t
      ]_vars

(***************************************************************************)
(* C13 The phone text.  In AwaitingPhone a text is accepted, its phone     *)
(* stored and nothing else changed, if and only if it has between 10 and   *)
(* 15 digit characters once the other characters are dropped; every other  *)
(* text leaves the step and the collected fields as they were.             *)
(***************************************************************************)
DigitsIn(t) == Cardinality({k \in 1..Len(Chars(t)) : Chars(t)[k] \in Digits})

C13_PhoneText ==
    [][ \A u \in Users : \A t \in PhoneTexts :
          (state[u] = "awaiting_phone" /\ process_phone_text(u, t, TRUE)) =>
             /\ state'[u] = "awaiting_phone"
             /\ IF 10 <= DigitsIn(t) /\ DigitsIn(t) <= 15
                THEN /\ DOMAIN data'[u] = DOMAIN data[u] \cup {"phone"}
                     /\ data'[u]["phone"] = t
                     /\ \A f \in DOMAIN data[u] \ {"phone"} : data'[u][f] = data[u][f]
                ELSE data'[u] = data[u]
      ]_vars

\* A text with brackets, blanks and dashes around its 11 digits has been
\* accepted as the phone.
C13_Witness ==
    \E u \in Users :
        /\ state[u] = "awaiting_phone"
        /\ "phone" \in DOMAIN data[u]
        /\ data[u]["phone"] = "+7 (900) 123-45-67"

(***************************************************************************)
(* C14 The delivery-mode selection.  With the phone collected in           *)
(* AwaitingPhone, value delivery leads to AwaitingAddress, value takeaway  *)
(* leads to AwaitingComment, and any other value leaves the step and the   *)
(* collected fields unchanged; and AwaitingAddress is never entered with a *)
(* mode other than delivery.                                               *)
(***************************************************************************)
C14_DeliveryChoice ==
    [][ \A u \in Users :
          /\ \A dt \in DeliveryValues :
               ( /\ state[u] = "awaiting_phone"
                 /\ "phone" \in DOMAIN data[u]
                 /\ handle_delivery_choice(u, dt, TRUE) ) =>
                   CASE dt = "delivery" -> state'[u] = "awaiting_address"
                     [] dt = "takeaway" -> state'[u] = "awaiting_comment"
                     [] OTHER -> state'[u] = state[u] /\ data'[u] = data[u]
          /\ (state[u] # "awaiting_address" /\ state'[u] = "awaiting_address") =>
                /\ "delivery_type" \in DOMAIN data'[u]
                /\ data'[u]["delivery_type"] = "delivery"
      ]_vars

(***************************************************************************)
(* C15 Admin authorization at every step.  No user outside the             *)
(* administrator set is ever in an admin step or has a delete in flight,   *)
(* no event of such a user changes a Category, a MenuItem or a Setting,    *)
(* and every change of those is the step of an administrator's event.      *)
(***************************************************************************)
Catalog == <<categories, menu_items, settings>>

DeletePcs == {"delete_items", "delete_category", "delete_item"}

C15_AdminOnly ==
    [][ /\ \A u \in Users \ ADMIN_IDS :
             /\ state'[u] \notin AdminStates
             /\ Catalog' # Catalog =>
                   ~(AdminEvent({u}, TRUE) \/ ShopperEvent({u}, TRUE))
        /\ \A t \in TaskIds :
             tasks'[t].pc \in DeletePcs => tasks'[t].user \in ADMIN_IDS
        /\ Catalog' # Catalog =>
             \/ \E a \in ADMIN_IDS : AdminEvent({a}, TRUE)
             \/ \E t \in TaskIds :
                   /\ tasks[t].user \in ADMIN_IDS
                   /\ DeleteItemsOfCategory(t) \/ DeleteCategoryRow(t) \/ DeleteItemRow(t)
      ]_vars

\* An administrator is in an admin step and has changed the catalog, while
\* a user who is none has a cart and a session of their own.
C15_Witness ==
    \E a \in ADMIN_IDS : \E u \in Users \ ADMIN_IDS :
        /\ state[a] \in AdminStates
        /\ state[u] = "awaiting_name"
        /\ CartExists(u)
        /\ settings.delivery_fee # 4

(***************************************************************************)
(* C16 After any sequence of admin operations every MenuItem price and     *)
(* both setting values are non-negative numbers.                           *)
(***************************************************************************)
C16_NonNegative ==
    /\ \A i \in DOMAIN menu_items : menu_items[i].price >= 0
    /\ \A k \in SettingKeys : settings[k] >= 0

(***************************************************************************)
(* C17 In every reachable state the category names are non-empty and       *)
(* pairwise distinct.                                                      *)
(***************************************************************************)
C17_CategoryNames ==
    /\ \A c \in DOMAIN categories : categories[c] # ""
    /\ \A c, d \in DOMAIN categories : c # d => categories[c] # categories[d]

(***************************************************************************)
(* C18 The cascade of a delete.  When a delete-category runs its statement *)
(* on the items, every item the category had is gone and no cart line of   *)
(* any user references one of them; when it completes, the category no     *)
(* longer exists and no MenuItem has it; and when a delete-item completes, *)
(* the item is gone and no cart line of any user references it.            *)
(***************************************************************************)
C18_DeleteCascades ==
    [][ \A t \in TaskIds :
          /\ DeleteItemsOfCategory(t) =>
                \A i \in ItemsOf(tasks[t].cat_id) :
                    /\ i \notin DOMAIN menu_items'
                    /\ \A k \in DOMAIN cart' : k[2] # i
          /\ DeleteCategoryRow(t) =>
                /\ tasks[t].cat_id \notin DOMAIN categories'
                /\ \A i \in DOMAIN menu_items' :
                      menu_items'[i].category_id # tasks[t].cat_id
          /\ DeleteItemRow(t) =>
                /\ tasks[t].item_id \notin DOMAIN menu_items'
                /\ \A k \in DOMAIN cart' : k[2] # tasks[t].item_id
      ]_vars

(***************************************************************************)
(* C19 No dangling references in any reachable state, between the          *)
(* statements of a delete and under any interleaving with add-item and     *)
(* create-item events: every CartLine references an existing MenuItem and  *)
(* every MenuItem references an existing Category.                         *)
(***************************************************************************)
C19_NoDangling ==
    /\ \A k \in DOMAIN cart : k[2] \in DOMAIN menu_items
    /\ \A i \in DOMAIN menu_items : menu_items[i].category_id \in DOMAIN categories

(***************************************************************************)
(* C20 Add item.  Every add-item call raises the quantity of its (user,    *)
(* item) line by exactly 1, from 0 when there is none, changes no other    *)
(* line and no session; calls that run concurrently are steps of this      *)
(* kind one after the other, so two of them raise the quantity by 2; and   *)
(* every line there is has a quantity above 0.                             *)
(***************************************************************************)
QtyOf(c, u, i) == IF <<u, i>> \in DOMAIN c THEN c[<<u, i>>] ELSE 0

C20_AddItem ==
    [][ /\ \A u \in Users : \A i \in ItemIds :
             handle_item_selection(u, i, FALSE, MaxCartQty) =>
                /\ QtyOf(cart', u, i) = QtyOf(cart, u, i) + 1
                /\ DOMAIN cart' = (DOMAIN cart) \cup {<<u, i>>}
                /\ \A k \in (DOMAIN cart) \ {<<u, i>>} : cart'[k] = cart[k]
                /\ state' = state
                /\ data' = data
        /\ \A k \in DOMAIN cart' : cart'[k] > 0
      ]_vars

\* Two add-item calls have raised a line that was 1 to 3, beside a line of
\* another user for the same item.
C20_Witness ==
    \E u \in Users : \E v \in Users \ {u} : \E i \in ItemIds :
        /\ QtyOf(cart, u, i) = 3
        /\ QtyOf(cart, v, i) = 1

(***************************************************************************)
(* C21: an Order and its lines, once recorded, are never changed: whatever *)
(* the step (a reprice, the delete of an item or of a category, a change   *)
(* of the settings or of a cart, another checkout), every row of orders    *)
(* and of order_items is after the step what it was before it, and a new   *)
(* Order adds no line to an older one.                                     *)
(***************************************************************************)
C21_OrdersImmutable ==
    [][/\ Len(orders') >= Len(orders)
       /\ \A k \in 1..Len(orders) : orders'[k] = orders[k]
       /\ Len(order_items') >= Len(order_items)
       /\ \A k \in 1..Len(order_items) : order_items'[k] = order_items[k]
       /\ \A k \in (Len(order_items) + 1)..Len(order_items') :
              order_items'[k].order_id > Len(orders)]_vars

\* Two Orders are recorded, the second after a reprice of the item of the
\* first; the delivery fee was changed, the cart emptied, and the item and
\* its category deleted: the first Order still shows the old price.
C21_Witness ==
    /\ Len(orders) = 2
    /\ Len(order_items) = 2
    /\ order_items[1].price_per_item = 2
    /\ orders[1].total_amount = 2
    /\ order_items[2].price_per_item = 4
    /\ settings["delivery_fee"] = 6
    /\ 1 \notin DOMAIN menu_items
    /\ 1 \notin DOMAIN categories
    /\ cart = EmptyCart

(***************************************************************************)
(* C22: once the Order is committed, no outcome of a message sent after    *)
(* the commit (the notifications of lines 247-252, the reply of lines      *)
(* 253-254) undoes the Order or ends the handler: the handler goes on to   *)
(* the statements that clear the user's cart and session.                  *)
(***************************************************************************)
C22_MessagesDoNotStopCommit ==
    [][\A t \in TaskIds :
          (tasks[t].pc \in {"notify", "reply"} /\ tasks'[t] # tasks[t])
          => /\ tasks'[t].pc \in {"reply", "delete_cart"}
             /\ orders' = orders
             /\ order_items' = order_items]_vars

(***************************************************************************)
(* C23: a store statement that fails leaves the session as it was before   *)
(* the event.  A statement that raises writes nothing back, so this is:    *)
(* the comment handler, whose cart read and settings read are still to     *)
(* come and can fail, has stored neither a comment nor a final total when  *)
(* it starts them, and the failure itself changes no session.              *)
(***************************************************************************)
C23_FailureKeepsSession ==
    [][\A u \in Customers :
          /\ \A t \in CommentInputs :
                process_comment_begin(u, t)
                => state'[u] = state[u] /\ data'[u] = data[u]
          /\ \A k \in TaskIds :
                (tasks[k].user = u /\ Raise(k))
                => state'[u] = state[u] /\ data'[u] = data[u]]_vars

(***************************************************************************)
(* C27: a session that awaits the final confirmation holds a name, a       *)
(* phone, a delivery mode and the final total of a checkout computation;   *)
(* and every recorded Order carries a name, a phone and a delivery mode.   *)
(***************************************************************************)
C27_ConfirmationHoldsFields ==
    /\ \A u \in Users :
          state[u] = AFC
          => {"name", "phone", "delivery_type", "final_total"} \subseteq DOMAIN data[u]
    /\ \A k \in 1..Len(orders) :
          /\ orders[k].user_name \in NameInputs
          /\ orders[k].phone_number \in ContactInputs \cup PhoneInputs
          /\ orders[k].delivery_type \in DeliveryInputs

\* The cart lines of user u in the cart c.
LinesOfUser(c, u) ==
    [i \in {i \in ItemIds : <<u, i>> \in DOMAIN c} |-> c[<<u, i>>]]

(***************************************************************************)
(* C24: no step of user a (an order-flow or cart event of a, or a step of  *)
(* a's commit) changes the session or the cart lines of another user b,    *)
(* however the events of the two interleave; and a new Order carries the   *)
(* name and phone its user gave and lines of the item its user put in the  *)
(* cart, and no other.                                                     *)
(***************************************************************************)
C24_NoCrossUserLeak ==
    [][/\ \A b \in Users :
             \/ /\ state'[b] = state[b]
                /\ data'[b] = data[b]
                /\ LinesOfUser(cart', b) = LinesOfUser(cart, b)
             \/ ~ \E a \in Users \ {b} :
                     \/ PairEvent({a})
                     \/ \E t \in TaskIds : tasks[t].user = a /\ tasks'[t] # tasks[t]
       /\ NewOrder =>
             LET o == orders'[Len(orders')]
             IN /\ o.user_name = PairName(o.user_id)
                /\ o.phone_number = PairPhone(o.user_id)
                /\ Len(order_items') = Len(order_items) + 1
                /\ \A k \in (Len(order_items) + 1)..Len(order_items') :
                      /\ order_items'[k].order_id = Len(orders')
                      /\ order_items'[k].item_name = menu_items[PairItem(o.user_id)].name
                      /\ order_items'[k].quantity \in 1..MaxQty]_vars

\* Each of the two users has an Order recorded; user 1 is through a second
\* flow and awaits the confirmation while user 2 has filled the cart again.
C24_Witness ==
    /\ Len(orders) = 2
    /\ orders[1].user_id = 1
    /\ orders[2].user_id = 2
    /\ state[1] = AFC
    /\ data[1]["name"] = "Ann"
    /\ state[2] = NoState
    /\ DOMAIN cart = {<<1, 1>>, <<2, 2>>}

\* The delivery-mode step of the order flow: the name is stored and the
\* phone accepted, the mode not yet chosen.
AtModeStep(u) ==
    /\ state[u] = "awaiting_phone"
    /\ {"name", "phone"} \subseteq DOMAIN data[u]

(***************************************************************************)
(* C25: a delivery-mode selection (takeaway or delivery) that arrives      *)
(* while its user is not at the delivery-mode step changes neither the     *)
(* step nor the collected fields of the session.                           *)
(***************************************************************************)
C25_ModeOnlyAtModeStep ==
    [][\A u \in Users : \A dt \in DeliveryInputs :
          (~AtModeStep(u) /\ handle_delivery_choice(u, dt, TRUE))
          => state'[u] = state[u] /\ data'[u] = data[u]]_vars

(***************************************************************************)
(* C26: once a phone is accepted, a later text or contact message is not   *)
(* taken as phone input: it leaves the stored phone as it is; and the flow *)
(* moves on to the address or the comment step only by a delivery-mode     *)
(* selection.                                                              *)
(***************************************************************************)
C26_PhoneKeptAtModeStep ==
    [][\A u \in Users :
          AtModeStep(u) =>
             /\ ( \/ \E t \in PhoneTexts : process_phone_text(u, t, TRUE)
                  \/ \E p \in ContactInputs : process_phone_contact(u, p, TRUE) )
                => data'[u] = data[u] /\ state'[u] = state[u]
             /\ state'[u] \in {"awaiting_address", "awaiting_comment"}
                => \E dt \in DeliveryValues : handle_delivery_choice(u, dt, TRUE)]_vars

(***************************************************************************)
(* C28: a user with a non-empty cart who has begun the checkout, no Order  *)
(* recorded yet, and who answers every step with a valid value, is         *)
(* eventually Idle again with exactly one Order recorded and an empty      *)
(* cart.                                                                   *)
(***************************************************************************)
C28_FlowCompletes ==
    \A u \in Customers :
        (state[u] = "awaiting_name" /\ CartExists(u) /\ orders = << >>)
        ~> (state[u] = NoState /\ Len(orders) = 1 /\ ~CartExists(u))

====
